---- MODULE Spec2Model ----
(***************************************************************************)
(* Model of the fig suggestion pipeline of                                 *)
(* src/vs/workbench/contrib/chat/browser/chatEditing/                      *)
(*   chatEditingModifiedNotebookEntry.ts:                                  *)
(* getFigSuggestions -> getFigSpecSuggestions -> collectCompletionItemResult*)
(* (with its inner addSuggestions) and getFigSuggestionLabel.              *)
(*                                                                         *)
(* One request is an asynchronous task; every `await` of the source is a   *)
(* step boundary of the model, and the caller may cancel the token while   *)
(* the request is suspended.  The tokenizer (getCommand), the parser       *)
(* (parseArguments)                                                        *)
(* and the generator engine (createGeneratorState) are imported by the     *)
(* file but are not part of it; they are modelled by their contracts.      *)
(***************************************************************************)
EXTENDS Integers, Sequences, FiniteSets, TLC

(***************************************************************************)
(* Bounds of the model.                                                    *)
(***************************************************************************)
MaxSpecs == 2
MaxRepeatSpecs == 1
MaxGens == 2

(***************************************************************************)
(* Generic helpers.                                                        *)
(***************************************************************************)
Range(s) == {s[i] : i \in 1..Len(s)}

SeqsUpTo(S, n) == UNION {[1..k -> S] : k \in 0..n}

RECURSIVE Flatten(_)
Flatten(ss) == IF ss = <<>> THEN <<>> ELSE Head(ss) \o Flatten(Tail(ss))

\* String.prototype.startsWith
StartsWith(s, p) == Len(p) <= Len(s) /\ SubSeq(s, 1, Len(p)) = p

\* the characters of s from position i to the end
Suffix(s, i) == SubSeq(s, i, Len(s))

(***************************************************************************)
(* Fig data.  A name is a string, a list of aliases, or missing; an entry  *)
(* of a suggestion source (SpecArg) is a plain string or an object with a  *)
(* name.  `names` holds the string (one element), the aliases, or nothing. *)
(***************************************************************************)
Str(s) == [str |-> TRUE, nameArr |-> FALSE, names |-> <<s>>]
Named(s) == [str |-> FALSE, nameArr |-> FALSE, names |-> <<s>>]
Aliases(ns) == [str |-> FALSE, nameArr |-> TRUE, names |-> ns]
NoName == [str |-> FALSE, nameArr |-> FALSE, names |-> <<>>]

\* A getFigSuggestionLabel that turns a string name into a one-element list in
\* place (spec.name = [spec.name]) before it returns it.
getFigSuggestionLabelNormalising(spec) ==
    IF spec.str THEN [defined |-> TRUE, labels |-> <<spec.names[1]>>, spec |-> spec]
    ELSE IF ~spec.nameArr /\ Len(spec.names) = 1
         THEN [defined |-> TRUE, labels |-> <<spec.names[1]>>,
               spec |-> [spec EXCEPT !.nameArr = TRUE]]
    ELSE IF ~spec.nameArr \/ Len(spec.names) = 0
         THEN [defined |-> FALSE, labels |-> <<>>, spec |-> spec]
    ELSE [defined |-> TRUE, labels |-> spec.names, spec |-> spec]

\* A getFigSuggestionLabel that keeps only the first of a list of aliases.
getFigSuggestionLabelFirstAlias(spec) ==
    IF spec.str THEN [defined |-> TRUE, labels |-> <<spec.names[1]>>, spec |-> spec]
    ELSE IF ~spec.nameArr /\ Len(spec.names) = 1
         THEN [defined |-> TRUE, labels |-> <<spec.names[1]>>, spec |-> spec]
    ELSE IF ~spec.nameArr \/ Len(spec.names) = 0
         THEN [defined |-> FALSE, labels |-> <<>>, spec |-> spec]
    ELSE [defined |-> TRUE, labels |-> <<spec.names[1]>>, spec |-> spec]

\* getFigSuggestionLabel: `defined` is FALSE where the source returns undefined;
\* `spec` is the argument as the call leaves it (the source only reads it).
\* For a list of aliases the returned array IS spec.name (no copy is made).
getFigSuggestionLabel(spec) ==
    IF spec.str THEN [defined |-> TRUE, labels |-> <<spec.names[1]>>, spec |-> spec]
    ELSE IF ~spec.nameArr /\ Len(spec.names) = 1
         THEN [defined |-> TRUE, labels |-> <<spec.names[1]>>, spec |-> spec]
    ELSE IF ~spec.nameArr \/ Len(spec.names) = 0
         THEN [defined |-> FALSE, labels |-> <<>>, spec |-> spec]
    ELSE [defined |-> TRUE, labels |-> spec.names, spec |-> spec]

\* A suggestion source: SpecArg[] | Record<string, SpecArg> | undefined.
NoSource == [form |-> "none", list |-> <<>>, keys |-> <<>>]
ListSource(es) == [form |-> "list", list |-> es, keys |-> <<>>]
MapSource(ks) == [form |-> "map", list |-> <<>>, keys |-> ks]

\* A generator definition: its template (absent, a string, or an array) and
\* the identity of its execution contract (script/custom), "" when it has none.
Generator(tpl, isArr, run) == [template |-> tpl, templateArr |-> isArr, run |-> run]
GenA == Generator(<<>>, FALSE, "A")
GenB == Generator(<<>>, FALSE, "B")
GenFiles == Generator(<<"filepaths">>, FALSE, "")
GenFolders == Generator(<<"folders">>, FALSE, "")
GenBoth == Generator(<<"filepaths", "folders">>, TRUE, "")

\* An argument: static suggestions and generators (<<>> when it has none).
Arg(sugg, gens) == [suggestions |-> sugg, generators |-> gens]
NoArg == [present |-> FALSE, arg |-> Arg(NoSource, <<>>)]
SomeArg(a) == [present |-> TRUE, arg |-> a]

\* A Fig.Spec tree: its name, its positional argument, subcommands and options.
Tree(name, arg, subs, opts) ==
    [str |-> FALSE, nameArr |-> name.nameArr, names |-> name.names,
     args |-> arg, subcommands |-> subs, options |-> opts]

(***************************************************************************)
(* The specs of the catalog that a request may be given.                   *)
(***************************************************************************)
SpecLs ==
    Tree(Named("ls"),
         SomeArg(Arg(ListSource(<<Str("x")>>), <<GenFiles, GenA>>)),
         NoSource, ListSource(<<Aliases(<<"-a", "-l">>)>>))
SpecLsAlias ==
    Tree(Aliases(<<"ls", "l">>),
         SomeArg(Arg(NoSource, <<GenFolders>>)), NoSource, NoSource)
SpecLsSub == Tree(Named("ls"), NoArg, MapSource(<<"s">>), NoSource)
SpecAnon == Tree(NoName, NoArg, NoSource, NoSource)
SpecCatalog == {SpecLs, SpecLsAlias, SpecLsSub, SpecAnon}

(***************************************************************************)
(* ICompletionResource: label, definitionCommand (<<>> when undefined) and *)
(* kind.                                                                   *)
(***************************************************************************)
Resource(label, def, kind) == [label |-> label, definitionCommand |-> def, kind |-> kind]
AvailPlain == <<Resource("ls", <<>>, "Method"), Resource("l", <<"ls">>, "Alias")>>
AvailAliasFirst == <<Resource("l", <<"ls">>, "Alias"), Resource("ls", <<>>, "Method")>>
AvailExe == <<Resource("ls.exe", <<>>, "Method")>>
AvailCatalog == {AvailPlain, AvailAliasFirst, AvailExe, <<>>}

PrecedingTexts == {"ls ", "l ", "ls"}
TokenTypes == {"Command", "Argument"}
Flags == {"Args", "Subcommands", "Options"}

(***************************************************************************)
(* Matching a spec label against the available commands.                   *)
(***************************************************************************)
\* label.match(new RegExp(`${specLabel}(\\.[^ ]+)?$`)): the label ends with the
\* spec label, optionally followed by a dot and one or more non-space characters.
MatchesWindows(label, specLabel) ==
    \E i \in 1..(Len(label) + 1) :
        LET suf == Suffix(label, i) IN
        \/ suf = specLabel
        \/ /\ StartsWith(suf, specLabel \o ".")
           /\ Len(suf) > Len(specLabel) + 1
           /\ \A j \in (Len(specLabel) + 2)..Len(suf) : SubSeq(suf, j, j) # " "

\* removeAnyFileExtension: the label without its last ".ext"
removeAnyFileExtension(label) ==
    LET dots == {i \in 1..(Len(label) - 1) :
                    /\ SubSeq(label, i, i) = "."
                    /\ \A j \in (i + 1)..Len(label) : SubSeq(label, j, j) \notin {".", " "}}
    IN IF dots = {} THEN label
       ELSE SubSeq(label, 1, (CHOOSE i \in dots : TRUE) - 1)

\* availableCommands.find(...): the index of the first match, 0 when there is none
FindAvailable(avail, specLabel, windows) ==
    LET hits == {i \in 1..Len(avail) :
                    IF windows THEN MatchesWindows(avail[i].label, specLabel)
                    ELSE StartsWith(avail[i].label, specLabel)}
    IN IF hits = {} THEN 0 ELSE CHOOSE i \in hits : \A j \in hits : i <= j

\* command.definitionCommand ?? command.label
DefinitionOrLabel(command) ==
    IF command.definitionCommand = <<>> THEN command.label
    ELSE command.definitionCommand[1]

\* availableCommands.filter(...): the commands the spec label defines, aliases included
CommandAndAliases(avail, specLabel, windows) ==
    {i \in 1..Len(avail) :
        specLabel = (IF windows THEN removeAnyFileExtension(DefinitionOrLabel(avail[i]))
                     ELSE DefinitionOrLabel(avail[i]))}

\* A first-word test without the space after the label.
IsFirstWordNoSpace(avail, specLabel, preceding, windows) ==
    \E i \in CommandAndAliases(avail, specLabel, windows) :
        StartsWith(preceding,
                   IF windows THEN removeAnyFileExtension(avail[i].label)
                   ELSE avail[i].label)

\* commandAndAliases.some(e => precedingText.startsWith(`${e.label} `))
IsFirstWord(avail, specLabel, preceding, windows) ==
    \E i \in CommandAndAliases(avail, specLabel, windows) :
        StartsWith(preceding,
                   (IF windows THEN removeAnyFileExtension(avail[i].label)
                    ELSE avail[i].label) \o " ")

(***************************************************************************)
(* The parser.  Whether the command matches the spec and which suggestion  *)
(* flags apply at the cursor depend on the command line, which the model   *)
(* does not spell out: `mode` carries them.  The command line names the    *)
(* executable only, so the current node is the root of the spec.           *)
(***************************************************************************)
Mismatch == [set |-> TRUE, match |-> FALSE, flags |-> {}]
Matched(fl) == [set |-> TRUE, match |-> TRUE, flags |-> fl]
ParseUnset == [set |-> FALSE, match |-> FALSE, flags |-> {}]
ParseModes ==
    {Mismatch, Matched({}), Matched({"Args"}), Matched({"Subcommands", "Options"}),
     Matched(Flags)}

ParseResult(fl, arg, subs, opts) ==
    [defined |-> TRUE, suggestionFlags |-> fl, currentArg |-> arg,
     completionObj |-> [subcommands |-> subs, options |-> opts]]
Undefined == [defined |-> FALSE, suggestionFlags |-> {}, currentArg |-> NoArg,
              completionObj |-> [subcommands |-> NoSource, options |-> NoSource]]

parseArguments(spec, mode) ==
    IF mode.match
    THEN ParseResult(mode.flags, spec.args, spec.subcommands, spec.options)
    ELSE Undefined

(***************************************************************************)
(* The generator engine.  What a generator's request settles to: a list of *)
(* suggestions, or a rejection.                                            *)
(***************************************************************************)
Settled(items) == [set |-> TRUE, ok |-> TRUE, items |-> items]
Rejected == [set |-> TRUE, ok |-> FALSE, items |-> <<>>]
GenUnset == [set |-> FALSE, ok |-> FALSE, items |-> <<>>]
GenOutcomes ==
    {Rejected, Settled(<<>>), Settled(<<Named("r")>>),
     Settled(<<NoName, Named(""), Aliases(<<>>), Aliases(<<"p", "q">>)>>)}
Runs == {"A", "B"}

\* An oracle answers the same question the same way every time it is asked.
Resolve(oracle, key, answers) == IF oracle[key].set THEN {oracle[key]} ELSE answers

VARIABLES
    specs,              \* getFigSuggestions: specs
    availableCommands,  \* getFigSuggestions: availableCommands
    precedingText,      \* getFigSuggestions: precedingText
    tokenType,          \* getFigSuggestions: tokenType
    cwdKnown,           \* shellIntegrationCwd is not undefined
    commandOk,          \* getCommand tokenizes the command line
    isWindows,          \* osIsWindows()
    token,              \* token.isCancellationRequested
    cancelledAtCall,    \* the token was already cancelled when the request was made
    pc,                 \* where the request is
    requests,           \* how many requests the caller makes, one after the other
    run,                \* number of the request (0: none started)
    result,             \* getFigSuggestions: result
    si, li,             \* position of the two loops over specs and labels
    parsedArguments,    \* getFigSpecSuggestions: parsedArguments
    items,              \* getFigSpecSuggestions: items
    filesRequested,     \* collectCompletionItemResult: filesRequested
    foldersRequested,   \* collectCompletionItemResult: foldersRequested
    gi, ri,             \* position of the loops over generators and their results
    generatorResults,   \* addSuggestions: generatorResults
    executions,         \* per execution contract, how often it ran in this pass
    calls,              \* parseArguments / triggerGenerators calls of this request
    parseOracle,        \* what parseArguments yields for each spec
    genOracle,          \* what each generator's request settles to
    outcomes            \* what the finished requests returned

inputs == <<availableCommands, precedingText, tokenType, cwdKnown, commandOk, isWindows,
           requests>>
oracles == <<parseOracle, genOracle>>
collectLocals == <<items, filesRequested, foldersRequested, gi, ri, generatorResults, executions>>
vars == <<specs, inputs, token, cancelledAtCall, pc, run, result, si, li, parsedArguments,
          collectLocals, calls, oracles, outcomes>>

EmptyResult ==
    [filesRequested |-> FALSE, foldersRequested |-> FALSE,
     hasCurrentArg |-> FALSE, items |-> <<>>]

NoExecutions == [r \in Runs |-> 0]
NoCalls == [parse |-> 0, trigger |-> 0]
(***************************************************************************)
(* Completion items.  `from` records which source an item came from:       *)
(* "command", "static", or the execution contract of a generator.          *)
(***************************************************************************)
createCompletionItem(label, kind, from) == [label |-> label, kind |-> kind, from |-> from]

\* for (const label of getFigSuggestionLabel(item) ?? []) items.push(...)
LabelItems(item, kind, from) ==
    LET suggestionLabels == getFigSuggestionLabel(item) IN
    IF suggestionLabels.defined
    THEN [i \in 1..Len(suggestionLabels.labels) |->
              createCompletionItem(suggestionLabels.labels[i], kind, from)]
    ELSE <<>>

\* addSuggestions, after the generators: the items of specArgs (list or map)
StaticItems(specArgs, kind) ==
    IF specArgs.form = "none" THEN <<>>
    ELSE IF specArgs.form = "list"
    THEN Flatten([i \in 1..Len(specArgs.list) |-> LabelItems(specArgs.list[i], kind, "static")])
    ELSE [i \in 1..Len(specArgs.keys) |-> createCompletionItem(specArgs.keys[i], kind, "static")]

\* !item.name is false: the name is a non-empty string or an array
HasName(item) ==
    /\ ~item.str
    /\ item.nameArr \/ (Len(item.names) = 1 /\ item.names[1] # "")

\* A loop over the produced items that ends at the first item without a usable
\* name (break where the source has continue).
GeneratorItemsUntilNameless(produced, kind, from) ==
    LET nameless == {i \in 1..Len(produced) :
                        ~HasName(produced[i]) \/ ~getFigSuggestionLabel(produced[i]).defined}
        n == IF nameless = {} THEN Len(produced)
             ELSE (CHOOSE i \in nameless : \A j \in nameless : i <= j) - 1
    IN Flatten([i \in 1..n |-> LabelItems(produced[i], kind, from)])

\* the items pushed for one settled generator result
GeneratorItems(produced, kind, from) ==
    Flatten([i \in 1..Len(produced) |->
                IF HasName(produced[i]) THEN LabelItems(produced[i], kind, from) ELSE <<>>])

\* A template loop that has the two flags the wrong way round.
TemplateFlagsSwapped(generator, files, folders) ==
    [filesRequested |-> files \/ "folders" \in Range(generator.template),
     foldersRequested |-> folders \/ "filepaths" \in Range(generator.template)]

\* the template loop of addSuggestions: the two flags after one generator
TemplateFlags(generator, files, folders) ==
    [filesRequested |-> files \/ "filepaths" \in Range(generator.template),
     foldersRequested |-> folders \/ "folders" \in Range(generator.template)]

\* The engine leaves filepaths/folders templates to the caller.
IsTemplate(generator) == Range(generator.template) \cap {"filepaths", "folders"} # {}

\* triggerGenerators: one entry per generator of the current argument, with a
\* request where the generator is executed: it is no template and no earlier
\* generator of the argument has the same definition.
triggerGenerators(generators) ==
    [i \in 1..Len(generators) |->
        [generator |-> generators[i],
         request |-> /\ ~IsTemplate(generators[i])
                     /\ \A j \in 1..(i - 1) : generators[j] # generators[i]]]

\* the executions one triggerGenerators call adds
Executed(counts, triggered) ==
    [r \in Runs |-> counts[r]
        + Cardinality({i \in 1..Len(triggered) :
                          triggered[i].request /\ triggered[i].generator.run = r})]

(***************************************************************************)
(* getFigSuggestions                                                       *)
(***************************************************************************)
specLabels == getFigSuggestionLabel(specs[si])
specLabel == specLabels.labels[li]
availableCommand == FindAvailable(availableCommands, specLabel, isWindows)

InLoop == pc = "label" /\ si <= Len(specs)

\* A skip condition that does not look at the token.
SkipsIgnoringToken(found, cancelled) == found = 0

\* An early return that does not look at the command.
ReturnsEarlyCwdOnly(tokenized, cwd) == ~cwd

\* An early return that does not look at the working directory.
ReturnsEarlyCommandOnly(tokenized, cwd) == ~tokenized

\* if (!availableCommand || (token && token.isCancellationRequested)) continue
Skips(found, cancelled) == found = 0 \/ cancelled

\* getFigSpecSuggestions: if (!command || !shellIntegrationCwd) return
ReturnsEarly(tokenized, cwd) == ~tokenized \/ ~cwd

\* the loop variables after `continue` or the end of the inner loop body
Advance ==
    /\ specs' = [specs EXCEPT ![si] = specLabels.spec]
    /\ IF specLabels.defined /\ li < Len(specLabels.labels)
       THEN si' = si /\ li' = li + 1
       ELSE si' = si + 1 /\ li' = 1

Finished(status, res) == [status |-> status, result |-> res, cancelled |-> token]

ResetLocals ==
    /\ parsedArguments' = Undefined
    /\ items' = <<>>
    /\ filesRequested' = FALSE
    /\ foldersRequested' = FALSE
    /\ gi' = 1
    /\ ri' = 1
    /\ generatorResults' = <<>>
    /\ executions' = NoExecutions

\* A call that goes on with the result object of the call before.
StartRequestKeepingResult ==
    /\ pc \in {"idle", "done", "rejected"}
    /\ run < requests
    /\ run' = run + 1
    /\ token' \in BOOLEAN
    /\ cancelledAtCall' = token'
    /\ result' = result
    /\ si' = 1
    /\ li' = 1
    /\ calls' = NoCalls
    /\ pc' = "label"
    /\ ResetLocals
    /\ UNCHANGED <<specs, inputs, oracles, outcomes>>

\* the call: result is created, the loop starts; the caller's token may already
\* be cancelled
StartRequest ==
    /\ pc \in {"idle", "done", "rejected"}
    /\ run < requests
    /\ run' = run + 1
    /\ token' \in BOOLEAN
    /\ cancelledAtCall' = token'
    /\ result' = EmptyResult
    /\ si' = 1
    /\ li' = 1
    /\ calls' = NoCalls
    /\ pc' = "label"
    /\ ResetLocals
    /\ UNCHANGED <<specs, inputs, oracles, outcomes>>

\* The request is suspended: it awaits parseArguments or the request of a
\* generator.  Everything else runs to the next of these without giving way.
Suspended ==
    \/ pc = "parse"
    \/ pc = "await" /\ generatorResults[ri].request

\* the caller cancels the token while the request is suspended
Cancel ==
    /\ run > 0
    /\ Suspended
    /\ ~token
    /\ token' = TRUE
    /\ UNCHANGED <<specs, inputs, cancelledAtCall, pc, run, result, si, li, parsedArguments,
                   collectLocals, calls, oracles, outcomes>>

\* if (!specLabels) continue
NoLabels ==
    /\ InLoop
    /\ ~specLabels.defined
    /\ Advance
    /\ UNCHANGED <<inputs, token, cancelledAtCall, pc, run, result, parsedArguments,
                   collectLocals, calls, oracles, outcomes>>

\* if (!availableCommand || (token && token.isCancellationRequested)) continue
SkipLabel ==
    /\ InLoop
    /\ specLabels.defined
    /\ Skips(availableCommand, token)
    /\ Advance
    /\ UNCHANGED <<inputs, token, cancelledAtCall, pc, run, result, parsedArguments,
                   collectLocals, calls, oracles, outcomes>>

\* tokenType === TokenType.Command: push the label unless the command is an alias
CommandItem ==
    /\ InLoop
    /\ specLabels.defined
    /\ ~Skips(availableCommand, token)
    /\ tokenType = "Command"
    /\ result' =
         IF availableCommands[availableCommand].kind # "Alias"
         THEN [result EXCEPT !.items =
                  Append(@, createCompletionItem(specLabel, "Default", "command"))]
         ELSE result
    /\ Advance
    /\ UNCHANGED <<inputs, token, cancelledAtCall, pc, run, parsedArguments,
                   collectLocals, calls, oracles, outcomes>>

\* the spec label is not the first word in the command line
NotFirstWord ==
    /\ InLoop
    /\ specLabels.defined
    /\ ~Skips(availableCommand, token)
    /\ tokenType # "Command"
    /\ ~IsFirstWord(availableCommands, specLabel, precedingText, isWindows)
    /\ Advance
    /\ UNCHANGED <<inputs, token, cancelledAtCall, pc, run, result, parsedArguments,
                   collectLocals, calls, oracles, outcomes>>

\* getFigSpecSuggestions returns undefined at once: if (!command || !shellIntegrationCwd);
\* the caller merges nothing
NoCommandOrCwd ==
    /\ InLoop
    /\ specLabels.defined
    /\ ~Skips(availableCommand, token)
    /\ tokenType # "Command"
    /\ IsFirstWord(availableCommands, specLabel, precedingText, isWindows)
    /\ ReturnsEarly(commandOk, cwdKnown)
    /\ Advance
    /\ UNCHANGED <<inputs, token, cancelledAtCall, pc, run, result, parsedArguments,
                   collectLocals, calls, oracles, outcomes>>

\* getFigSpecSuggestions reaches `await parseArguments(command, shellContext, spec)`
CallParseArguments ==
    /\ InLoop
    /\ specLabels.defined
    /\ ~Skips(availableCommand, token)
    /\ tokenType # "Command"
    /\ IsFirstWord(availableCommands, specLabel, precedingText, isWindows)
    /\ ~ReturnsEarly(commandOk, cwdKnown)
    /\ calls' = [calls EXCEPT !.parse = @ + 1]
    /\ pc' = "parse"
    /\ specs' = [specs EXCEPT ![si] = specLabels.spec]
    /\ UNCHANGED <<inputs, token, cancelledAtCall, run, result, si, li, parsedArguments,
                   collectLocals, oracles, outcomes>>

\* parseArguments yields a result; collectCompletionItemResult starts
ParseReturns ==
    /\ pc = "parse"
    /\ \E mode \in Resolve(parseOracle, specs[si], ParseModes) :
          /\ mode.match
          /\ parseOracle' = [parseOracle EXCEPT ![specs[si]] = mode]
          /\ parsedArguments' = parseArguments(specs[si], mode)
    /\ pc' = "args"
    /\ UNCHANGED <<specs, inputs, token, cancelledAtCall, run, result, si, li,
                   collectLocals, calls, genOracle, outcomes>>

\* parseArguments yields undefined; collectCompletionItemResult reads
\* parsedArguments.suggestionFlags of it and throws, and nothing catches it
ParseMismatch ==
    /\ pc = "parse"
    /\ \E mode \in Resolve(parseOracle, specs[si], ParseModes) :
          /\ ~mode.match
          /\ parseOracle' = [parseOracle EXCEPT ![specs[si]] = mode]
    /\ pc' = "rejected"
    /\ outcomes' = Append(outcomes, Finished("rejected", EmptyResult))
    /\ UNCHANGED <<specs, inputs, token, cancelledAtCall, run, result, si, li, parsedArguments,
                   collectLocals, calls, genOracle>>

\* A merge that assigns the flags of the spec (= where the source has ||=).
MergedOverwriting(res, cancelled) ==
    IF cancelled THEN res
    ELSE [filesRequested |-> filesRequested,
          foldersRequested |-> foldersRequested,
          hasCurrentArg |-> parsedArguments.currentArg.present,
          items |-> res.items \o items]

\* what getFigSpecSuggestions returns after collectCompletionItemResult, merged
\* into result by getFigSuggestions
Merged(res, cancelled) ==
    IF cancelled THEN res
    ELSE [filesRequested |-> res.filesRequested \/ filesRequested,
          foldersRequested |-> res.foldersRequested \/ foldersRequested,
          hasCurrentArg |-> res.hasCurrentArg \/ parsedArguments.currentArg.present,
          items |-> res.items \o items]

\* collectCompletionItemResult has returned: if (token?.isCancellationRequested)
\* return undefined; otherwise the result of the spec is merged
SpecSuggestionsReturn ==
    /\ pc = "collected"
    /\ run > 0
    /\ result' = Merged(result, token)
    /\ pc' = "label"
    /\ Advance
    /\ ResetLocals
    /\ UNCHANGED <<inputs, token, cancelledAtCall, run, calls, oracles, outcomes>>

\* return result
Return ==
    /\ pc = "label"
    /\ si > Len(specs)
    /\ pc' = "done"
    /\ outcomes' = Append(outcomes, Finished("done", result))
    /\ UNCHANGED <<specs, inputs, token, cancelledAtCall, run, result, si, li, parsedArguments,
                   collectLocals, calls, oracles>>
(***************************************************************************)
(* collectCompletionItemResult and its addSuggestions                      *)
(***************************************************************************)
currentArg == parsedArguments.currentArg.arg
generators == currentArg.generators

Throw ==
    /\ pc' = "rejected"
    /\ outcomes' = IF run > 0 THEN Append(outcomes, Finished("rejected", EmptyResult))
                   ELSE outcomes

\* if (parsedArguments.suggestionFlags & SuggestionFlag.Args) addSuggestions(...):
\* enter the loop over the generators of the current argument, if it has any
BeginArgs ==
    /\ pc = "args"
    /\ pc' = IF "Args" \notin parsedArguments.suggestionFlags THEN "sub"
             ELSE IF generators # <<>> THEN "gen"
             ELSE "static"
    /\ gi' = 1
    /\ UNCHANGED <<specs, inputs, token, cancelledAtCall, run, result, si, li, parsedArguments,
                   items, filesRequested, foldersRequested, ri, generatorResults,
                   executions, calls, oracles, outcomes>>

\* one round of `for (const generator of generators)`: its templates set the
\* flags, then a new generator state triggers the generators of parsedArguments
TriggerGenerator ==
    /\ pc = "gen"
    /\ LET flags == TemplateFlags(generators[gi], filesRequested, foldersRequested)
           triggered == triggerGenerators(generators)
       IN /\ filesRequested' = flags.filesRequested
          /\ foldersRequested' = flags.foldersRequested
          /\ generatorResults' = triggered
          /\ executions' = Executed(executions, triggered)
    /\ calls' = [calls EXCEPT !.trigger = @ + 1]
    /\ ri' = 1
    /\ pc' = "await"
    /\ UNCHANGED <<specs, inputs, token, cancelledAtCall, run, result, si, li, parsedArguments,
                   items, gi, oracles, outcomes>>

\* where addSuggestions continues after one generatorResult has been handled
AfterResult ==
    IF ri < Len(generatorResults) THEN pc' = "await" /\ ri' = ri + 1 /\ gi' = gi
    ELSE IF gi < Len(generators) THEN pc' = "gen" /\ ri' = 1 /\ gi' = gi + 1
    ELSE pc' = "static" /\ ri' = 1 /\ gi' = gi

\* (await generatorResult?.request) ?? [] settles: its named items are pushed
AwaitSettles ==
    /\ pc = "await"
    /\ LET entry == generatorResults[ri] IN
       IF entry.request
       THEN \E outcome \in Resolve(genOracle, entry.generator.run, GenOutcomes) :
               /\ outcome.ok
               /\ genOracle' = [genOracle EXCEPT ![entry.generator.run] = outcome]
               /\ items' = items \o GeneratorItems(outcome.items, "Argument",
                                                   entry.generator.run)
       ELSE /\ genOracle' = genOracle
            /\ items' = items
    /\ AfterResult
    /\ UNCHANGED <<specs, inputs, token, cancelledAtCall, run, result, si, li, parsedArguments,
                   filesRequested, foldersRequested, generatorResults, executions,
                   calls, parseOracle, outcomes>>

\* the awaited request rejects: no try/catch surrounds the await
AwaitRejects ==
    /\ pc = "await"
    /\ generatorResults[ri].request
    /\ \E outcome \in Resolve(genOracle, generatorResults[ri].generator.run, GenOutcomes) :
          /\ ~outcome.ok
          /\ genOracle' = [genOracle EXCEPT ![generatorResults[ri].generator.run] = outcome]
    /\ Throw
    /\ UNCHANGED <<specs, inputs, token, cancelledAtCall, run, result, si, li, parsedArguments,
                   collectLocals, calls, parseOracle>>

\* the rest of addSuggestions(currentArg?.suggestions, Argument, parsedArguments)
AddStatic ==
    /\ pc = "static"
    /\ items' = items \o StaticItems(currentArg.suggestions, "Argument")
    /\ pc' = "sub"
    /\ UNCHANGED <<specs, inputs, token, cancelledAtCall, run, result, si, li, parsedArguments,
                   filesRequested, foldersRequested, gi, ri, generatorResults,
                   executions, calls, oracles, outcomes>>

\* An addSuggestions of the subcommands that does not test the flag.
AddSubcommandsIgnoringFlag ==
    /\ pc = "sub"
    /\ items' = items \o StaticItems(parsedArguments.completionObj.subcommands, "Method")
    /\ pc' = "opt"
    /\ UNCHANGED <<specs, inputs, token, cancelledAtCall, run, result, si, li, parsedArguments,
                   filesRequested, foldersRequested, gi, ri, generatorResults,
                   executions, calls, oracles, outcomes>>

\* if (suggestionFlags & Subcommands) addSuggestions(completionObj.subcommands, Method)
AddSubcommands ==
    /\ pc = "sub"
    /\ items' = IF "Subcommands" \in parsedArguments.suggestionFlags
                THEN items \o StaticItems(parsedArguments.completionObj.subcommands, "Method")
                ELSE items
    /\ pc' = "opt"
    /\ UNCHANGED <<specs, inputs, token, cancelledAtCall, run, result, si, li, parsedArguments,
                   filesRequested, foldersRequested, gi, ri, generatorResults,
                   executions, calls, oracles, outcomes>>

\* if (suggestionFlags & Options) addSuggestions(completionObj.options, Flag);
\* return { filesRequested, foldersRequested }
AddOptions ==
    /\ pc = "opt"
    /\ items' = IF "Options" \in parsedArguments.suggestionFlags
                THEN items \o StaticItems(parsedArguments.completionObj.options, "Flag")
                ELSE items
    /\ pc' = "collected"
    /\ UNCHANGED <<specs, inputs, token, cancelledAtCall, run, result, si, li, parsedArguments,
                   filesRequested, foldersRequested, gi, ri, generatorResults,
                   executions, calls, oracles, outcomes>>

(***************************************************************************)
(* Specifications.  Spec: requests to getFigSuggestions, one after the     *)
(* other, over the specs, commands and texts of the catalogs.              *)
(* SpecCollect: one direct call of collectCompletionItemResult (it is      *)
(* exported) with any parse result over the generators and sources below.  *)
(***************************************************************************)
Inputs ==
    /\ availableCommands \in AvailCatalog
    /\ precedingText \in PrecedingTexts
    /\ tokenType \in TokenTypes
    /\ cwdKnown \in BOOLEAN
    /\ commandOk \in BOOLEAN
    /\ isWindows \in BOOLEAN

Idle ==
    /\ token = FALSE
    /\ cancelledAtCall = FALSE
    /\ pc = "idle"
    /\ run = 0
    /\ result = EmptyResult
    /\ si = 1
    /\ li = 1
    /\ parsedArguments = Undefined
    /\ items = <<>>
    /\ filesRequested = FALSE
    /\ foldersRequested = FALSE
    /\ gi = 1
    /\ ri = 1
    /\ generatorResults = <<>>
    /\ executions = NoExecutions
    /\ calls = NoCalls
    /\ parseOracle = [t \in SpecCatalog |-> ParseUnset]
    /\ genOracle = [r \in Runs |-> GenUnset]
    /\ outcomes = <<>>

Init ==
    /\ specs \in SeqsUpTo(SpecCatalog, MaxSpecs)
    /\ requests = 1
    /\ Inputs
    /\ Idle

InitRepeat ==
    /\ specs \in SeqsUpTo(SpecCatalog, MaxRepeatSpecs)
    /\ requests = 2
    /\ Inputs
    /\ Idle

NextCollect ==
    \/ BeginArgs
    \/ TriggerGenerator
    \/ AwaitSettles
    \/ AwaitRejects
    \/ AddStatic
    \/ AddSubcommands
    \/ AddOptions

Next ==
    \/ StartRequest
    \/ Cancel
    \/ NoLabels
    \/ SkipLabel
    \/ CommandItem
    \/ NotFirstWord
    \/ NoCommandOrCwd
    \/ CallParseArguments
    \/ ParseReturns
    \/ ParseMismatch
    \/ SpecSuggestionsReturn
    \/ Return
    \/ NextCollect

Spec == Init /\ [][Next]_vars

SpecRepeat == InitRepeat /\ [][Next]_vars

GenCatalog == {GenA, GenB, GenFiles, GenFolders, GenBoth}
SuggestionCatalog ==
    {NoSource, ListSource(<<>>), MapSource(<<"k", "m">>),
     ListSource(<<Str("x"), Aliases(<<"y", "z">>), NoName, Aliases(<<>>)>>)}
ObjCatalog ==
    {[subcommands |-> NoSource, options |-> ListSource(<<>>)],
     [subcommands |-> ListSource(<<Named("s")>>), options |-> MapSource(<<"-o">>)],
     [subcommands |-> MapSource(<<"t", "u">>), options |-> ListSource(<<Aliases(<<"-a", "-l">>)>>)]}
ArgCatalog ==
    {NoArg} \cup {SomeArg(Arg(sg, gs)) :
                     sg \in SuggestionCatalog, gs \in SeqsUpTo(GenCatalog, MaxGens)}

InitCollect ==
    /\ specs = <<>>
    /\ availableCommands = <<>>
    /\ precedingText = ""
    /\ tokenType = "Argument"
    /\ cwdKnown \in BOOLEAN
    /\ commandOk = TRUE
    /\ isWindows = FALSE
    /\ requests = 0
    /\ token = FALSE
    /\ cancelledAtCall = FALSE
    /\ pc = "args"
    /\ run = 0
    /\ result = EmptyResult
    /\ si = 1
    /\ li = 1
    /\ parsedArguments \in
         {ParseResult(fl, arg, obj.subcommands, obj.options) :
             fl \in SUBSET Flags, arg \in ArgCatalog, obj \in ObjCatalog}
    /\ items = <<>>
    /\ filesRequested = FALSE
    /\ foldersRequested = FALSE
    /\ gi = 1
    /\ ri = 1
    /\ generatorResults = <<>>
    /\ executions = NoExecutions
    /\ calls = NoCalls
    /\ parseOracle = [t \in SpecCatalog |-> ParseUnset]
    /\ genOracle = [r \in Runs |-> GenUnset]
    /\ outcomes = <<>>

SpecCollect == InitCollect /\ [][NextCollect]_vars
(***************************************************************************)
(* Properties                                                              *)
(***************************************************************************)
RequestRejected(r) == genOracle[r].set /\ ~genOracle[r].ok
SomeRequestRejected == \E r \in Runs : RequestRejected(r)
SomeMismatch == \E t \in SpecCatalog : parseOracle[t].set /\ ~parseOracle[t].match

\* the labels of the specs that getFigSpecSuggestions is called for
ParsedLabels ==
    {<<i, j>> \in (1..Len(specs)) \X (1..2) :
        LET labels == getFigSuggestionLabel(specs[i]) IN
        /\ labels.defined
        /\ j <= Len(labels.labels)
        /\ FindAvailable(availableCommands, labels.labels[j], isWindows) # 0
        /\ IsFirstWord(availableCommands, labels.labels[j], precedingText, isWindows)}

\* C1: a request whose token is cancelled while it is in progress returns no
\* items: never the candidates it had gathered before the cancellation.
C1_CancelledReturnsNoItems == (pc = "done" /\ token) => result.items = <<>>

\* C2: a request made with a token that is already cancelled returns an empty
\* items list with filesRequested, foldersRequested and hasCurrentArg false, and
\* calls neither parseArguments nor a generator (and it does not fail).
C2_CancelledAtCallIsEmpty ==
    (run > 0 /\ cancelledAtCall) =>
        /\ pc \in {"label", "done"}
        /\ result = EmptyResult
        /\ calls = NoCalls
        /\ \A r \in Runs : executions[r] = 0

C2_Witness ==
    /\ pc = "done"
    /\ cancelledAtCall
    /\ tokenType = "Argument"
    /\ commandOk /\ cwdKnown
    /\ ParsedLabels # {}

\* C3: in one collectCompletionItemResult call each generator definition of the
\* current argument is executed at most once.
C3_EachGeneratorExecutesOnce == \A r \in Runs : executions[r] <= 1

\* C4: when the request of a generator rejects, collectCompletionItemResult
\* still completes normally: it does not reject.
C4_GeneratorFailureIsSwallowed == SomeRequestRejected => pc # "rejected"

\* C5: when parseArguments yields undefined for a spec (and no generator request
\* rejects), the spec is skipped without an error: the request does not reject.
C5_MismatchSkipsSpec == (SomeMismatch /\ ~SomeRequestRejected) => pc # "rejected"

\* C6: when getCommand cannot tokenize the command line, the request does not
\* throw, parseArguments and the generators are never called, no flag of the
\* result is set and (for a token that is not a Command token) no item is added.
C6_UntokenizableAddsNothing ==
    (run > 0 /\ ~commandOk) =>
        /\ pc \in {"label", "done"}
        /\ calls = NoCalls
        /\ \A r \in Runs : executions[r] = 0
        /\ ~result.filesRequested /\ ~result.foldersRequested /\ ~result.hasCurrentArg
        /\ tokenType # "Command" => result.items = <<>>

C6_Witness ==
    /\ pc = "done"
    /\ ~commandOk /\ cwdKnown
    /\ ~token
    /\ tokenType = "Argument"
    /\ ParsedLabels # {}

Rank(kind) == CASE kind = "Argument" -> 1 [] kind = "Method" -> 2 [] kind = "Flag" -> 3
                [] OTHER -> 0
OfKind(its, kind) == SelectSeq(its, LAMBDA it : it.kind = kind)
IsEmptySource(src) == src.form = "none" \/ (src.list = <<>> /\ src.keys = <<>>)

\* C7: collectCompletionItemResult appends the candidates in a fixed order:
\* the argument values (only with the Args flag), then the subcommands (only with
\* the Subcommands flag), then the options (only with the Options flag).  A
\* category whose flag is clear or whose source is missing or empty adds nothing,
\* and when the call returns the subcommand and option candidates are all those
\* of their sources.
C7_FixedCategoryOrder ==
    LET fl == parsedArguments.suggestionFlags
        obj == parsedArguments.completionObj
    IN /\ \A i, j \in 1..Len(items) :
             i < j => Rank(items[i].kind) <= Rank(items[j].kind)
       /\ \A i \in 1..Len(items) : Rank(items[i].kind) > 0
       /\ ("Args" \notin fl \/ (IsEmptySource(currentArg.suggestions) /\ generators = <<>>))
             => OfKind(items, "Argument") = <<>>
       /\ ("Subcommands" \notin fl \/ IsEmptySource(obj.subcommands))
             => OfKind(items, "Method") = <<>>
       /\ ("Options" \notin fl \/ IsEmptySource(obj.options))
             => OfKind(items, "Flag") = <<>>
       /\ pc = "collected" =>
             /\ "Subcommands" \in fl =>
                   OfKind(items, "Method") = StaticItems(obj.subcommands, "Method")
             /\ "Options" \in fl =>
                   OfKind(items, "Flag") = StaticItems(obj.options, "Flag")
             /\ "Args" \in fl =>
                   SelectSeq(items, LAMBDA it : it.from = "static" /\ it.kind = "Argument")
                      = StaticItems(currentArg.suggestions, "Argument")

C7_Witness ==
    /\ pc = "collected"
    /\ run = 0
    /\ OfKind(items, "Argument") # <<>>
    /\ OfKind(items, "Method") # <<>>
    /\ OfKind(items, "Flag") # <<>>

\* addSuggestions has been through the round of generator k of the current argument
RoundDone(k) ==
    /\ "Args" \in parsedArguments.suggestionFlags
    /\ \/ pc \in {"static", "sub", "opt", "collected"}
       \/ pc = "gen" /\ k < gi
       \/ pc \in {"await", "rejected"} /\ k <= gi

C9_SameInputsSameResult ==
    (Len(outcomes) = 2 /\ ~outcomes[1].cancelled /\ ~outcomes[2].cancelled)
        => outcomes[1] = outcomes[2]

C9_Witness ==
    /\ Len(outcomes) = 2
    /\ ~outcomes[1].cancelled /\ ~outcomes[2].cancelled
    /\ outcomes[2].status = "done"
    /\ Len(outcomes[2].result.items) >= 2
    /\ outcomes[2].result.hasCurrentArg

\* C10: no step of the pipeline changes the specs it was given.
C10_SpecsAreReadOnly == [][specs' = specs]_vars

C10_Witness ==
    /\ pc = "done"
    /\ Len(specs) = 2
    /\ result.items # <<>>
    /\ result.hasCurrentArg

\* the candidates that generators produced
FromGenerators(its) == SelectSeq(its, LAMBDA it : it.from \in Runs)

\* C11: once the token of a request is cancelled, that request triggers no
\* further generator and turns no further generator batch into candidates.
C11_CancelStopsGenerators ==
    [][(token /\ token') =>
          /\ calls'.trigger <= calls.trigger
          /\ Len(FromGenerators(items')) <= Len(FromGenerators(items))]_vars

\* where the generator with execution contract r is declared on the current argument
DeclaredAt(r) ==
    LET at == {k \in 1..Len(generators) : generators[k].run = r}
    IN CHOOSE k \in at : \A m \in at : k <= m

\* C12: the candidates of the generators stand in the order in which the
\* generators are declared on the current argument: a candidate of a generator
\* declared earlier never follows a candidate of one declared later.
C12_GeneratorDeclarationOrder ==
    \A i, j \in 1..Len(items) :
        (i < j /\ items[i].from \in Runs /\ items[j].from \in Runs)
            => DeclaredAt(items[i].from) <= DeclaredAt(items[j].from)

Labels(its) == [i \in 1..Len(its) |-> its[i].label]

\* the names a list-form source declares, entry after entry: the string itself,
\* the single name, or every alias; nothing for a missing name or an empty list
DeclaredNames(src) == Flatten([i \in 1..Len(src.list) |-> src.list[i].names])

\* C13: when collectCompletionItemResult returns, the candidates of a list-form
\* source are, entry after entry, one per alias in the declared order for a list
\* of aliases, one for a plain string or a single string name, and none for an
\* entry whose name is missing or an empty list.
C13_OneCandidatePerAlias ==
    LET fl == parsedArguments.suggestionFlags
        obj == parsedArguments.completionObj
        static == SelectSeq(items, LAMBDA it : it.from = "static")
    IN pc = "collected" =>
         /\ ("Args" \in fl /\ currentArg.suggestions.form = "list")
               => Labels(OfKind(static, "Argument")) = DeclaredNames(currentArg.suggestions)
         /\ ("Subcommands" \in fl /\ obj.subcommands.form = "list")
               => Labels(OfKind(static, "Method")) = DeclaredNames(obj.subcommands)
         /\ ("Options" \in fl /\ obj.options.form = "list")
               => Labels(OfKind(static, "Flag")) = DeclaredNames(obj.options)

C13_Witness ==
    /\ pc = "collected"
    /\ run = 0
    /\ "Args" \in parsedArguments.suggestionFlags
    /\ currentArg.suggestions = ListSource(<<Str("x"), Aliases(<<"y", "z">>), NoName, Aliases(<<>>)>>)
    /\ Labels(OfKind(items, "Argument")) = <<"x", "y", "z">>
    /\ "Subcommands" \in parsedArguments.suggestionFlags
    /\ Labels(OfKind(items, "Method")) = <<"s">>

\* the names of the produced items that have a usable name
UsableNames(produced) ==
    Flatten([i \in 1..Len(produced) |->
                IF produced[i].names = <<"">> THEN <<>> ELSE produced[i].names])

\* what the generators of the current argument contribute, batch after batch of
\* every round of the generator loop, when no usable item is lost
ExpectedFromGenerators ==
    LET triggered == triggerGenerators(generators)
        batch == Flatten([i \in 1..Len(triggered) |->
                            IF triggered[i].request
                            THEN UsableNames(genOracle[triggered[i].generator.run].items)
                            ELSE <<>>])
    IN Flatten([g \in 1..Len(generators) |-> batch])

\* C14: an item of a generator without a usable name (missing, empty string or
\* empty list of aliases) adds no candidate and raises no error, and the usable
\* items of the same batch and of the later batches are all added: once the
\* generator loop is through, the generator candidates are exactly the usable
\* names, and the call fails only if a request was rejected.
C14_NamelessItemsAreDropped ==
    /\ pc \in {"static", "sub", "opt", "collected"}
          => Labels(FromGenerators(items)) =
                IF "Args" \in parsedArguments.suggestionFlags
                THEN ExpectedFromGenerators ELSE <<>>
    /\ pc = "rejected" => SomeRequestRejected

C14_Witness ==
    /\ pc = "collected"
    /\ run = 0
    /\ generators = <<GenA, GenB>>
    /\ genOracle["A"] = Settled(<<NoName, Named(""), Aliases(<<>>), Aliases(<<"p", "q">>)>>)
    /\ genOracle["B"] = Settled(<<Named("r")>>)
    /\ Labels(FromGenerators(items)) = <<"p", "q", "r", "p", "q", "r">>

ResultFlags(res) == <<res.filesRequested, res.foldersRequested, res.hasCurrentArg>>

\* C15: within one request the flags of the result only accumulate: a spec pass
\* that completes ORs its filesRequested, foldersRequested and hasCurrentArg into
\* the result, every other step (a skipped label, a cancelled pass) leaves the
\* three flags as they are, so a flag that is true is never reset to false.
C15_FlagsOnlyAccumulate ==
    [][run' = run =>
          /\ IF pc = "collected" /\ pc' = "label" /\ ~token
             THEN ResultFlags(result') =
                    <<result.filesRequested \/ filesRequested,
                      result.foldersRequested \/ foldersRequested,
                      result.hasCurrentArg \/ parsedArguments.currentArg.present>>
             ELSE ResultFlags(result') = ResultFlags(result)
          /\ result.filesRequested => result'.filesRequested
          /\ result.foldersRequested => result'.foldersRequested
          /\ result.hasCurrentArg => result'.hasCurrentArg]_vars

C15_Witness ==
    /\ pc = "done"
    /\ ~token
    /\ specs = <<SpecLs, SpecLsSub>>
    /\ calls.parse = 2
    /\ "Args" \in parseOracle[SpecLs].flags
    /\ result.filesRequested /\ result.hasCurrentArg /\ ~result.foldersRequested

\* the spec label matches some available command that is not an alias
MatchesNonAlias(label) ==
    \E i \in 1..Len(availableCommands) :
        /\ availableCommands[i].kind # "Alias"
        /\ IF isWindows THEN MatchesWindows(availableCommands[i].label, label)
           ELSE StartsWith(availableCommands[i].label, label)

\* the labels of the specs, in order, that match a command that is not an alias
CommandLabels ==
    Flatten([i \in 1..Len(specs) |->
                SelectSeq(getFigSuggestionLabel(specs[i]).labels, MatchesNonAlias)])

\* C16: for a Command token the request never parses and never runs a
\* generator, the three flags stay false, and (the token not being cancelled) the
\* items returned are one candidate per spec label that matches an available
\* command whose kind is not Alias.
C16_CommandTokenListsCommands ==
    (tokenType = "Command" /\ run > 0) =>
        /\ pc \in {"label", "done"}
        /\ calls = NoCalls
        /\ \A r \in Runs : executions[r] = 0
        /\ ResultFlags(result) = <<FALSE, FALSE, FALSE>>
        /\ (pc = "done" /\ ~cancelledAtCall) => Labels(result.items) = CommandLabels

\* a command name as it is compared: on Windows without its file extension
CommandName(name) == IF isWindows THEN removeAnyFileExtension(name) ELSE name

\* some available command that the label defines (the command itself or an
\* alias of it), followed by a space, is a prefix of precedingText
LabelLeadsText(label) ==
    \E i \in 1..Len(availableCommands) :
        /\ CommandName(DefinitionOrLabel(availableCommands[i])) = label
        /\ StartsWith(precedingText, CommandName(availableCommands[i].label) \o " ")

LeadingLabels ==
    {l \in UNION {Range(getFigSuggestionLabel(specs[i]).labels) : i \in 1..Len(specs)} :
        LabelLeadsText(l)}

C18_NoCwdNoSuggestions ==
    /\ (run > 0 /\ ~cwdKnown /\ tokenType # "Command") =>
          /\ pc \in {"label", "done"}
          /\ result = EmptyResult
          /\ calls = NoCalls
          /\ \A r \in Runs : executions[r] = 0
    /\ (run > 0 /\ calls.trigger > 0) => cwdKnown

C18_Witness ==
    /\ pc = "done"
    /\ ~cwdKnown /\ commandOk
    /\ ~token
    /\ tokenType = "Argument"
    /\ Len(specs) = 2
    /\ \A i \in 1..Len(specs) : \E j \in 1..2 : <<i, j>> \in ParsedLabels
====
